---- MODULE Spec2Model ----
(***************************************************************************)
(* Model of models/train_classifier.py: the training script of the        *)
(* disaster-response pipeline.                                             *)
(*                                                                         *)
(*   Spec          main(): argument check, load, split, build, fit,        *)
(*                 evaluate (predict + one report per category), save.     *)
(*   SpecTok       tokenize(text) on character sequences.                  *)
(*   SpecVerb      StartingVerbExtractor.starting_verb on one message.     *)
(*   SpecTransform StartingVerbExtractor.transform on a column of messages.*)
(***************************************************************************)
EXTENDS Integers, Sequences, FiniteSets, TLC

VARIABLES
    \* ---- main() ----
    argc,            \* len(sys.argv)
    pc,              \* position of main()
    stdout,          \* lines printed so far
    exitStatus,      \* "running", "ok" (normal end), "error" (uncaught exception)
    file0,           \* what is at model_filepath before the run (a file, "old")
    file,            \* what is at model_filepath now
    X, Y,            \* load_data's X (message ids) and Y (label rows)
    category_names,  \* load_data's category_names
    trainIdx,        \* rows of X_train / Y_train
    testIdx,         \* rows of X_test / Y_test
    model,           \* the GridSearchCV object
    Y_pred,          \* evaluate_model's Y_pred
    i,               \* evaluate_model's loop index (0-based, as in the code)
    evalReturn,      \* what evaluate_model returned
    \* ---- history of the run (not program state) ----
    trace,           \* stages that have completed, in order
    failedStage,     \* the stage that raised, or "none"
    predictCalls,    \* calls of model.predict
    saveCalls,       \* calls of save_model
    writes,          \* times the model file was opened for writing
    fitted,          \* the model as model.fit left it
    \* ---- tokenize / StartingVerbExtractor ----
    text,            \* tokenize's argument
    tokens,          \* tokenize(text)
    tokens2,         \* tokenize of the tokens joined by blanks
    tpc,             \* position of the tokenize run
    msgs,            \* transform's X: a sequence of messages
    out,             \* the booleans computed so far, or the result
    vpc              \* position of the transform / starting_verb run

mainVars == <<argc, pc, stdout, exitStatus, file0, file, X, Y, category_names,
              trainIdx, testIdx, model, Y_pred, i, evalReturn, trace,
              failedStage, predictCalls, saveCalls, writes, fitted>>
tokVars  == <<text, tokens, tokens2, tpc>>
verbVars == <<msgs, out, vpc>>
vars     == <<mainVars, tokVars, verbVars>>

(***************************************************************************)
(* Bounds                                                                  *)
(***************************************************************************)
MaxArgc == 4
MaxRows == 2
MaxCats == 2

\* Label values a table can hold: load_data does not validate them.
LabelValues == {0, 1, 2}

\* df.iloc[:, 4:]
FirstLabelColumn == 4

(***************************************************************************)
(* Helpers on sequences                                                    *)
(***************************************************************************)
Range(s) == {s[k] : k \in DOMAIN s}

\* The members of a set of row numbers, in ascending order
RECURSIVE Ascending(_)
Ascending(S) ==
    IF S = {} THEN <<>>
    ELSE LET m == CHOOSE x \in S : \A y \in S : x <= y
         IN  <<m>> \o Ascending(S \ {m})

\* Column j (1-based) of the rows `idx` of table T: T.iloc[idx, j].values
Column(T, idx, j) == [r \in 1..Len(idx) |-> T[idx[r]][j]]

(***************************************************************************)
(* main                                                                    *)
(***************************************************************************)
NoModel == [state |-> "none", classes |-> <<>>]

Usage   == "Please provide the filepath ..."

\* A line of text written by print
Line(s) == [kind |-> "text", text |-> s]

\* What is at model_filepath: the file that was there, the pickle of a model,
\* or a file that open(filename, 'wb') truncated
OldFile       == [kind |-> "old", pickled |-> NoModel]
TruncatedFile == [kind |-> "truncated", pickled |-> NoModel]
Pickle(m)     == [kind |-> "pickle", pickled |-> m]

ArgcAcceptedAtLeast(n) == n >= 3

\* if len(sys.argv) == 3
ArgcAccepted(n) == n = 3

Init ==
    /\ argc \in 1..MaxArgc
    /\ pc = "start"
    /\ stdout = <<>>
    /\ exitStatus = "running"
    /\ file0 = OldFile
    /\ file = file0
    /\ X = <<>> /\ Y = <<>> /\ category_names = <<>>
    /\ trainIdx = <<>> /\ testIdx = <<>>
    /\ model = NoModel
    /\ Y_pred = <<>>
    /\ i = 0
    /\ evalReturn = "not called"
    /\ trace = <<>>
    /\ failedStage = "none"
    /\ predictCalls = 0 /\ saveCalls = 0 /\ writes = 0
    /\ fitted = NoModel
    /\ text = <<>> /\ tokens = <<>> /\ tokens2 = <<>> /\ tpc = "idle"
    /\ msgs = <<>> /\ out = <<>> /\ vpc = "idle"

RaiseSwallowed(stage) ==
    /\ pc' = "done"
    /\ exitStatus' = "ok"
    /\ failedStage' = stage

\* An exception leaves main: nothing in main catches it.
Raise(stage) ==
    /\ pc' = "raised"
    /\ exitStatus' = "error"
    /\ failedStage' = stage

\* main, lines 185-187 and 205-209
MainStart ==
    /\ pc = "start"
    /\ IF ArgcAccepted(argc)
         THEN /\ stdout' = Append(stdout, Line("Loading data..."))
              /\ pc' = "load"
              /\ exitStatus' = exitStatus
         ELSE /\ stdout' = Append(stdout, Line(Usage))
              /\ pc' = "done"
              /\ exitStatus' = "ok"
    /\ UNCHANGED <<argc, file0, file, X, Y, category_names, trainIdx, testIdx,
                   model, Y_pred, i, evalReturn, trace, failedStage,
                   predictCalls, saveCalls, writes, fitted, tokVars, verbVars>>

\* The tables pd.read_sql_table can return: n rows, k label columns after the
\* first four columns.
Tables ==
    UNION {[1..n -> [1..k -> LabelValues]] : n \in 1..MaxRows, k \in 1..MaxCats}

\* load_data, lines 49-79
LoadData ==
    /\ pc = "load"
    /\ \E T \in Tables :
         /\ X' = [r \in 1..Len(T) |-> r]
         /\ Y' = T
         /\ category_names' = [j \in 1..Len(T[1]) |-> FirstLabelColumn + j - 1]
    /\ pc' = "split"
    /\ trace' = Append(trace, "load")
    /\ UNCHANGED <<argc, stdout, exitStatus, file0, file, trainIdx, testIdx,
                   model, Y_pred, i, evalReturn, failedStage, predictCalls,
                   saveCalls, writes, fitted, tokVars, verbVars>>

\* test_size=0.2: the test part holds ceil(0.2 * n) rows
NTest(n) == (n + 4) \div 5

\* train_test_split(X, Y, test_size=0.2), line 189, and the print of line 191.
\* It raises when the train part would be empty. The shuffle decides which
\* rows go to the test part; the order of the rows inside a part is kept
\* ascending here (nothing below reads it).
Split ==
    /\ pc = "split"
    /\ Len(X) - NTest(Len(X)) > 0
    /\ \E S \in SUBSET (1..Len(X)) :
         /\ Cardinality(S) = NTest(Len(X))
         /\ testIdx' = Ascending(S)
         /\ trainIdx' = Ascending((1..Len(X)) \ S)
    /\ stdout' = Append(stdout, Line("Building model..."))
    /\ pc' = "build"
    /\ trace' = Append(trace, "split")
    /\ UNCHANGED <<argc, exitStatus, file0, file, X, Y, category_names, model,
                   Y_pred, i, evalReturn, failedStage, predictCalls, saveCalls,
                   writes, fitted, tokVars, verbVars>>

\* build_model, lines 114-145, and the print of line 194
BuildModel ==
    /\ pc = "build"
    /\ model' = [state |-> "unfit", classes |-> <<>>]
    /\ stdout' = Append(stdout, Line("Training model..."))
    /\ pc' = "fit"
    /\ trace' = Append(trace, "build")
    /\ UNCHANGED <<argc, exitStatus, file0, file, X, Y, category_names,
                   trainIdx, testIdx, Y_pred, i, evalReturn, failedStage,
                   predictCalls, saveCalls, writes, fitted, tokVars, verbVars>>

\* MultiOutputClassifier fits one classifier per label column; the classifier
\* of column j knows the values that occur in column j of Y_train.
ClassesOfAnyColumn(T, idx, j) ==
    UNION {Range(Column(T, idx, c)) : c \in 1..Len(T[1])}

ClassesOf(T, idx, j) == Range(Column(T, idx, j))

FitThenSave ==
    /\ pc = "fit"
    /\ model' = [state |-> "fitted",
                 classes |-> [j \in 1..Len(Y[1]) |-> ClassesOf(Y, trainIdx, j)]]
    /\ fitted' = model'
    /\ stdout' = Append(stdout, Line("Saving model..."))
    /\ pc' = "save"
    /\ trace' = Append(trace, "fit")
    /\ UNCHANGED <<argc, exitStatus, file0, file, X, Y, category_names,
                   trainIdx, testIdx, Y_pred, i, evalReturn, failedStage,
                   predictCalls, saveCalls, writes, tokVars, verbVars>>

\* model.fit(X_train, Y_train), line 195, and the print of line 197
Fit ==
    /\ pc = "fit"
    /\ model' = [state |-> "fitted",
                 classes |-> [j \in 1..Len(Y[1]) |-> ClassesOf(Y, trainIdx, j)]]
    /\ fitted' = model'
    /\ stdout' = Append(stdout, Line("Evaluating model..."))
    /\ pc' = "predict"
    /\ trace' = Append(trace, "fit")
    /\ UNCHANGED <<argc, exitStatus, file0, file, X, Y, category_names,
                   trainIdx, testIdx, Y_pred, i, evalReturn, failedStage,
                   predictCalls, saveCalls, writes, tokVars, verbVars>>

\* Y_pred = model.predict(X_test), line 163: one row per test message, one
\* cell per fitted classifier, each cell one of that classifier's classes.
EvalPredict ==
    /\ pc = "predict"
    /\ Y_pred' \in [1..Len(testIdx) ->
                      {row \in [1..Len(model.classes) -> LabelValues] :
                          \A j \in 1..Len(model.classes) :
                              row[j] \in model.classes[j]}]
    /\ predictCalls' = predictCalls + 1
    /\ i' = 0
    /\ pc' = "report"
    /\ UNCHANGED <<argc, stdout, exitStatus, file0, file, X, Y, category_names,
                   trainIdx, testIdx, model, evalReturn, trace, failedStage,
                   saveCalls, writes, fitted, tokVars, verbVars>>

\* Number of positions where two columns agree (accuracy_score's numerator)
RECURSIVE Agree(_, _)
Agree(a, b) ==
    IF a = <<>> THEN 0
    ELSE (IF Head(a) = Head(b) THEN 1 ELSE 0) + Agree(Tail(a), Tail(b))

\* line 165: "Category:", category_names[i], classification_report(
\*               Y_test.iloc[:, i].values, Y_pred[:, i])
ReportLineFirstColumn(k) ==
    [kind |-> "report", category |-> category_names[k + 1],
     y_true |-> Column(Y, testIdx, 1),
     y_pred |-> [r \in 1..Len(Y_pred) |-> Y_pred[r][1]]]

ReportLine(k) ==
    [kind |-> "report", category |-> category_names[k + 1],
     y_true |-> Column(Y, testIdx, k + 1),
     y_pred |-> [r \in 1..Len(Y_pred) |-> Y_pred[r][k + 1]]]

\* line 166: 'Accuracy of %25s: %.2f' % (category_names[i], accuracy_score(...))
AccuracyLine(k) ==
    [kind |-> "accuracy", category |-> category_names[k + 1],
     correct |-> Agree(Column(Y, testIdx, k + 1),
                       [r \in 1..Len(Y_pred) |-> Y_pred[r][k + 1]]),
     total |-> Len(testIdx)]

\* One pass of the loop of lines 164-166
EvalReport ==
    /\ pc = "report"
    /\ i < Len(category_names)
    /\ stdout' = stdout \o <<ReportLine(i), AccuracyLine(i)>>
    /\ i' = i + 1
    /\ UNCHANGED <<argc, pc, exitStatus, file0, file, X, Y, category_names,
                   trainIdx, testIdx, model, Y_pred, evalReturn, trace,
                   failedStage, predictCalls, saveCalls, writes, fitted,
                   tokVars, verbVars>>

\* The loop ends, evaluate_model returns (None), and main prints line 200
EvalReturn ==
    /\ pc = "report"
    /\ i = Len(category_names)
    /\ evalReturn' = "None"
    /\ stdout' = Append(stdout, Line("Saving model..."))
    /\ pc' = "save"
    /\ trace' = Append(trace, "evaluate")
    /\ UNCHANGED <<argc, exitStatus, file0, file, X, Y, category_names,
                   trainIdx, testIdx, model, Y_pred, i, failedStage,
                   predictCalls, saveCalls, writes, fitted, tokVars, verbVars>>

\* save_model, lines 169-181, and the print of line 203
SaveModel ==
    /\ pc = "save"
    /\ saveCalls' = saveCalls + 1
    /\ writes' = writes + 1
    /\ file' = Pickle(model)
    /\ stdout' = Append(stdout, Line("Trained model saved!"))
    /\ pc' = "done"
    /\ exitStatus' = "ok"
    /\ trace' = Append(trace, "save")
    /\ UNCHANGED <<argc, file0, X, Y, category_names, trainIdx, testIdx, model,
                   Y_pred, i, evalReturn, failedStage, predictCalls, fitted,
                   tokVars, verbVars>>

\* The stage main is in, by its position
StageOf(p) ==
    CASE p = "load" -> "load"
      [] p = "split" -> "split"
      [] p = "build" -> "build"
      [] p = "fit" -> "fit"
      [] p = "predict" -> "evaluate"
      [] p = "report" -> "evaluate"
      [] OTHER -> "none"

\* A library call of load, split, build, fit or evaluate raises
StageFails ==
    /\ StageOf(pc) # "none"
    /\ Raise(StageOf(pc))
    /\ predictCalls' = IF pc = "predict" THEN predictCalls + 1 ELSE predictCalls
    /\ UNCHANGED <<argc, stdout, file0, file, X, Y, category_names, trainIdx,
                   testIdx, model, Y_pred, i, evalReturn, trace, saveCalls,
                   writes, fitted, tokVars, verbVars>>

\* save_model raises: open(filename, 'wb') fails and leaves the path alone, or
\* pickle.dump fails after open has truncated the file
SaveFails ==
    /\ pc = "save"
    /\ Raise("save")
    /\ saveCalls' = saveCalls + 1
    /\ \/ /\ file' = file
          /\ writes' = writes
       \/ /\ file' = TruncatedFile
          /\ writes' = writes + 1
    /\ UNCHANGED <<argc, stdout, file0, X, Y, category_names, trainIdx, testIdx,
                   model, Y_pred, i, evalReturn, trace, predictCalls, fitted,
                   tokVars, verbVars>>

Next ==
    \/ MainStart
    \/ LoadData
    \/ Split
    \/ BuildModel
    \/ Fit
    \/ EvalPredict
    \/ EvalReport
    \/ EvalReturn
    \/ SaveModel
    \/ StageFails
    \/ SaveFails

Spec == Init /\ [][Next]_vars

(***************************************************************************)
(* Claims about main and evaluate_model (checked under Spec)               *)
(***************************************************************************)
StageOrder == <<"load", "split", "build", "fit", "evaluate", "save">>

IsPrefix(s, t) == Len(s) <= Len(t) /\ s = SubSeq(t, 1, Len(s))

\* C1: with two positional arguments the stages complete in the order load,
\* split, build, fit, evaluate, save, each once; a run that ends normally has
\* completed all six and written the model file exactly once; the file is
\* never opened for writing before evaluate_model has returned.
C1_StagesInOrder ==
    ArgcAccepted(argc) =>
        /\ IsPrefix(trace, StageOrder)
        /\ writes <= 1
        /\ saveCalls <= 1
        /\ (writes > 0 \/ saveCalls > 0 \/ file # file0) =>
               /\ SubSeq(StageOrder, 1, 5) = SubSeq(trace, 1, 5)
               /\ evalReturn = "None"
               /\ i = Len(category_names)
        /\ pc = "done" =>
               /\ trace = StageOrder
               /\ writes = 1
               /\ saveCalls = 1
               /\ file = Pickle(fitted)

C1_Witness ==
    /\ argc = 3
    /\ pc = "done"
    /\ failedStage = "none"
    /\ file = Pickle(fitted)
    /\ fitted.state = "fitted"

\* C2: with len(sys.argv) # 3 main prints the usage message and does nothing
\* else: nothing is loaded, built, fitted or predicted, the model path is left
\* alone, and the process ends normally.
C2_WrongArgcIsNoOp ==
    argc # 3 =>
        /\ pc \in {"start", "done"}
        /\ trace = <<>>
        /\ Y = <<>> /\ X = <<>> /\ category_names = <<>>
        /\ model = NoModel
        /\ predictCalls = 0 /\ saveCalls = 0 /\ writes = 0
        /\ file = file0
        /\ exitStatus # "error"
        /\ pc = "start" => stdout = <<>>
        /\ pc = "done" => stdout = <<Line(Usage)>> /\ exitStatus = "ok"

C2_Witness ==
    /\ argc > 3
    /\ pc = "done"
    /\ stdout = <<Line(Usage)>>

\* The lines evaluate_model must have printed for the first k categories:
\* for category c, a report of column c of the held-out labels against
\* column c of the predictions, then the accuracy of the same two columns.
RECURSIVE ExpectedEvalOutput(_)
ExpectedEvalOutput(k) ==
    IF k = 0 THEN <<>>
    ELSE LET truth == [r \in 1..Len(testIdx) |-> Y[testIdx[r]][k]]
             pred  == [r \in 1..Len(testIdx) |-> Y_pred[r][k]]
         IN  ExpectedEvalOutput(k - 1) \o
             << [kind |-> "report", category |-> category_names[k],
                 y_true |-> truth, y_pred |-> pred],
                [kind |-> "accuracy", category |-> category_names[k],
                 correct |-> Cardinality({r \in 1..Len(testIdx) :
                                            truth[r] = pred[r]}),
                 total |-> Len(testIdx)] >>

\* Lines printed by main before it calls evaluate_model
LinesBeforeEvaluate == 4

\* C6: evaluate_model prints one report and one accuracy line per category,
\* in category_names order, report c from column c of Y_test and of Y_pred;
\* it calls predict once, returns None, and changes neither the fitted model
\* nor the test data.
C6_EvaluateReportsEachCategory ==
    [][ /\ pc \in {"predict", "report"} =>
              /\ model' = model
              /\ X' = X /\ Y' = Y /\ testIdx' = testIdx
              /\ category_names' = category_names
        /\ evalReturn' = "None" =>
              /\ predictCalls' = 1
              /\ model' = fitted'
              /\ Len(stdout') >= LinesBeforeEvaluate + 2 * Len(category_names') + 1
              /\ SubSeq(stdout', LinesBeforeEvaluate + 1,
                        LinesBeforeEvaluate + 2 * Len(category_names'))
                   = ExpectedEvalOutput(Len(category_names))'
              /\ stdout'[LinesBeforeEvaluate + 2 * Len(category_names') + 1]
                   = Line("Saving model...")
      ]_vars

C6_Witness ==
    /\ evalReturn = "None"
    /\ Len(category_names) = 2
    /\ Column(Y, testIdx, 1) # Column(Y, testIdx, 2)
    /\ \E r \in 1..Len(Y_pred) : Y_pred[r][1] # Y_pred[r][2]

\* C7 (as stated): the prediction has one column per category name and holds
\* only the values 0 and 1.
C7_PredictionsAreBinary ==
    predictCalls > 0 /\ failedStage = "none" =>
        /\ Len(Y_pred) = Len(testIdx)
        /\ \A r \in 1..Len(Y_pred) :
              /\ Len(Y_pred[r]) = Len(category_names)
              /\ \A j \in 1..Len(Y_pred[r]) : Y_pred[r][j] \in {0, 1}

\* C7 (amended): the prediction has one column per category name, and column
\* j holds only values that occur in column j of the training labels.
C7_PredictionsWithinTrainingLabels ==
    predictCalls > 0 /\ failedStage = "none" =>
        /\ Len(Y_pred) = Len(testIdx)
        /\ \A r \in 1..Len(Y_pred) :
              /\ Len(Y_pred[r]) = Len(category_names)
              /\ \A j \in 1..Len(Y_pred[r]) :
                    Y_pred[r][j] \in {Y[t][j] : t \in Range(trainIdx)}

C7_Witness ==
    /\ predictCalls = 1
    /\ pc = "report"
    /\ Len(category_names) = 2
    /\ \E r \in 1..Len(Y_pred) : Y_pred[r][1] = 2 /\ Y_pred[r][2] \in {0, 1}

\* The stages completed before stage s
RECURSIVE StagesBefore(_, _)
StagesBefore(order, s) ==
    IF order = <<>> \/ Head(order) = s THEN <<>>
    ELSE <<Head(order)>> \o StagesBefore(Tail(order), s)

\* C10: a failure of load, split, build, fit or evaluate leaves main as an
\* uncaught exception: no later stage completes, save_model is not called,
\* the file at the model path is as it was; and "Trained model saved!" is
\* printed only once save_model has returned.
C10_FailurePropagates ==
    /\ failedStage \in {"load", "split", "build", "fit", "evaluate"} =>
          /\ pc = "raised"
          /\ exitStatus = "error"
          /\ trace = StagesBefore(StageOrder, failedStage)
          /\ saveCalls = 0
          /\ writes = 0
          /\ file = file0
    /\ (\E k \in DOMAIN stdout : stdout[k] = Line("Trained model saved!")) =>
          /\ saveCalls = 1
          /\ trace = StageOrder
          /\ failedStage = "none"

C10_Witness ==
    /\ failedStage = "evaluate"
    /\ pc = "raised"
    /\ i > 0
    /\ file = OldFile

(***************************************************************************)
(* tokenize                                                                *)
(*                                                                         *)
(* A text is a sequence of one-character strings.                          *)
(***************************************************************************)
MaxPieces == 4

LowerCase == {"a","b","c","d","e","f","g","h","i","j","k","l","m",
              "n","o","p","q","r","s","t","u","v","w","x","y","z"}
UpperCase == {"A","B","C","D","E","F","G","H","I","J","K","L","M",
              "N","O","P","Q","R","S","T","U","V","W","X","Y","Z"}
Digits    == {"0","1","2","3","4","5","6","7","8","9"}
Whitespace == {" ", "\t", "\n"}

\* The characters one step of the group of url_regex accepts:
\* [a-zA-Z] | [0-9] | [$-_@.&+] | [!*\(\),] | %[0-9a-fA-F][0-9a-fA-F].
\* "$-_" is the range from "$" to "_"; it holds "%" and the hex digits, so the
\* last alternative accepts nothing the others do not.
UrlChars ==
    LowerCase \cup UpperCase \cup Digits
      \cup {"$","%","&","'","(",")","*","+",",","-",".","/",":",";","<","=",
            ">","?","@","[","\\","]","^","_"}
      \cup {"@", ".", "&", "+"}
      \cup {"!", "*", "(", ")", ","}

Placeholder == <<"u","r","l","p","l","a","c","e","h","o","l","d","e","r">>

\* Whether word w stands in text t at position p
HasAt(t, p, w) ==
    /\ p + Len(w) - 1 <= Len(t)
    /\ SubSeq(t, p, p + Len(w) - 1) = w

\* Length of the longest run of UrlChars of t from position p on
RECURSIVE RunLen(_, _)
RunLen(t, p) ==
    IF p <= Len(t) /\ t[p] \in UrlChars THEN 1 + RunLen(t, p + 1) ELSE 0

\* Length of the match of url_regex at position p of t; 0 when there is none.
\* http[s]?://(...)+ : the scheme, then at least one UrlChar, taken greedily.
MatchLen(t, p) ==
    IF HasAt(t, p, <<"h","t","t","p","s",":","/","/">>) /\ RunLen(t, p + 8) > 0
      THEN 8 + RunLen(t, p + 8)
    ELSE IF HasAt(t, p, <<"h","t","t","p",":","/","/">>) /\ RunLen(t, p + 7) > 0
      THEN 7 + RunLen(t, p + 7)
    ELSE 0

\* re.findall(url_regex, text): the non-overlapping matches, left to right
RECURSIVE FindAllFrom(_, _)
FindAllFrom(t, p) ==
    IF p > Len(t) THEN <<>>
    ELSE IF MatchLen(t, p) > 0
      THEN <<SubSeq(t, p, p + MatchLen(t, p) - 1)>>
             \o FindAllFrom(t, p + MatchLen(t, p))
    ELSE FindAllFrom(t, p + 1)

FindAll(t) == FindAllFrom(t, 1)

\* text.replace(old, new): every non-overlapping occurrence, left to right
RECURSIVE ReplaceFrom(_, _, _, _)
ReplaceFrom(t, p, old, new) ==
    IF p > Len(t) THEN <<>>
    ELSE IF HasAt(t, p, old)
      THEN new \o ReplaceFrom(t, p + Len(old), old, new)
    ELSE <<t[p]>> \o ReplaceFrom(t, p + 1, old, new)

Replace(t, old, new) == ReplaceFrom(t, 1, old, new)

ReplaceFirstUrlOnly(t, urls) ==
    IF urls = <<>> THEN t ELSE Replace(t, Head(urls), Placeholder)

\* for url in detected_urls: text = text.replace(url, "urlplaceholder")
RECURSIVE ReplaceUrls(_, _)
ReplaceUrls(t, urls) ==
    IF urls = <<>> THEN t
    ELSE ReplaceUrls(Replace(t, Head(urls), Placeholder), Tail(urls))

\* word_tokenize, for texts without full stops, quotes, brackets and dashes
\* (one sentence, no contractions): it pads these with blanks and then
\* splits on whitespace: ":" and "," when no digit follows, and
\* ; @ # $ % & ? ! always.
PaddedBeforeNonDigit == {":", ","}
PaddedAlways == {";", "@", "#", "$", "%", "&", "?", "!"}

RECURSIVE PadFrom(_, _)
PadFrom(t, p) ==
    IF p > Len(t) THEN <<>>
    ELSE IF \/ t[p] \in PaddedAlways
            \/ /\ t[p] \in PaddedBeforeNonDigit
               /\ (p = Len(t) \/ t[p + 1] \notin Digits)
      THEN <<" ", t[p], " ">> \o PadFrom(t, p + 1)
    ELSE <<t[p]>> \o PadFrom(t, p + 1)

\* str.split(): the maximal runs of characters that are not whitespace
RECURSIVE SplitFrom(_, _, _)
SplitFrom(t, p, word) ==
    IF p > Len(t) THEN (IF word = <<>> THEN <<>> ELSE <<word>>)
    ELSE IF t[p] \in Whitespace
      THEN (IF word = <<>> THEN <<>> ELSE <<word>>) \o SplitFrom(t, p + 1, <<>>)
    ELSE SplitFrom(t, p + 1, Append(word, t[p]))

\* tokens = word_tokenize(text)
WordTokenize(t) == SplitFrom(PadFrom(t, 1), 1, <<>>)

\* The noun lemmas WordNet knows, as far as the texts below need them.
\* WordNet's index is in lower case and the lookup is by exact match.
WordNetNouns == { <<"d","o","g">> }

\* lemmatizer.lemmatize(tok): the word itself when WordNet knows it, else the
\* word without its plural "s" when WordNet knows that, else the word as is.
Lemmatize(w) ==
    IF w \in WordNetNouns THEN w
    ELSE IF Len(w) > 1 /\ w[Len(w)] = "s"
              /\ SubSeq(w, 1, Len(w) - 1) \in WordNetNouns
      THEN SubSeq(w, 1, Len(w) - 1)
    ELSE w

LowerLetters == <<"a","b","c","d","e","f","g","h","i","j","k","l","m",
                  "n","o","p","q","r","s","t","u","v","w","x","y","z">>
UpperLetters == <<"A","B","C","D","E","F","G","H","I","J","K","L","M",
                  "N","O","P","Q","R","S","T","U","V","W","X","Y","Z">>

\* str.lower() on one character
LowerChar(c) ==
    IF \E k \in 1..26 : UpperLetters[k] = c
      THEN LowerLetters[CHOOSE k \in 1..26 : UpperLetters[k] = c]
    ELSE c

Lower(w) == [k \in 1..Len(w) |-> LowerChar(w[k])]

\* str.strip()
RECURSIVE Strip(_)
Strip(w) ==
    IF w = <<>> THEN w
    ELSE IF Head(w) \in Whitespace THEN Strip(Tail(w))
    ELSE IF w[Len(w)] \in Whitespace THEN Strip(SubSeq(w, 1, Len(w) - 1))
    ELSE w

\* clean_tok = lemmatizer.lemmatize(tok).lower().strip()
Clean(w) == Strip(Lower(Lemmatize(w)))

\* tokenize(text), lines 82-111
tokenize(t) ==
    LET masked == ReplaceUrls(t, FindAll(t))
        toks   == WordTokenize(masked)
    IN  [k \in 1..Len(toks) |-> Clean(toks[k])]

\* The token sequence written out again as a text: the tokens joined by blanks
RECURSIVE Join(_)
Join(ws) ==
    IF ws = <<>> THEN <<>>
    ELSE IF Len(ws) = 1 THEN Head(ws)
    ELSE Head(ws) \o <<" ">> \o Join(Tail(ws))

\* The pieces the input texts are made of
Pieces ==
    { <<"h","t","t","p",":","/","/","a">>,
      <<"h","t","t","p","s",":","/","/","a">>,
      <<"b">>,
      <<" ">>,
      <<"D","o","g","s">>,
      <<"d","o","g","s">> }

RECURSIVE Concat(_)
Concat(ps) == IF ps = <<>> THEN <<>> ELSE Head(ps) \o Concat(Tail(ps))

Texts == {Concat(ps) : ps \in UNION {[1..n -> Pieces] : n \in 0..MaxPieces}}

MainIdle ==
    /\ argc = 3 /\ pc = "idle" /\ stdout = <<>> /\ exitStatus = "running"
    /\ file0 = OldFile /\ file = OldFile
    /\ X = <<>> /\ Y = <<>> /\ category_names = <<>>
    /\ trainIdx = <<>> /\ testIdx = <<>>
    /\ model = NoModel /\ Y_pred = <<>> /\ i = 0
    /\ evalReturn = "not called" /\ trace = <<>> /\ failedStage = "none"
    /\ predictCalls = 0 /\ saveCalls = 0 /\ writes = 0 /\ fitted = NoModel

InitTok ==
    /\ MainIdle
    /\ text \in Texts
    /\ tokens = <<>> /\ tokens2 = <<>>
    /\ tpc = "input"
    /\ msgs = <<>> /\ out = <<>> /\ vpc = "idle"

\* tokenize(text)
Tokenize ==
    /\ tpc = "input"
    /\ tokens' = tokenize(text)
    /\ tpc' = "tokenized"
    /\ UNCHANGED <<text, tokens2, mainVars, verbVars>>

\* tokenize applied to its own output, written out as a text
Retokenize ==
    /\ tpc = "tokenized"
    /\ tokens2' = tokenize(Join(tokens))
    /\ tpc' = "retokenized"
    /\ UNCHANGED <<text, tokens, mainVars, verbVars>>

NextTok ==
    \/ Tokenize
    \/ Retokenize

SpecTok == InitTok /\ [][NextTok]_vars

(***************************************************************************)
(* Claims about tokenize (checked under SpecTok)                           *)
(***************************************************************************)
\* re.sub(url_regex, rep, t): every match, by position, replaced by rep
RECURSIVE SubFrom(_, _, _)
SubFrom(t, p, rep) ==
    IF p > Len(t) THEN <<>>
    ELSE IF MatchLen(t, p) > 0
      THEN rep \o SubFrom(t, p + MatchLen(t, p), rep)
    ELSE <<t[p]>> \o SubFrom(t, p + 1, rep)

\* The clean tokens of a text that is tokenized as it stands
TokensOf(t) ==
    LET toks == WordTokenize(t)
    IN  [k \in 1..Len(toks) |-> Clean(toks[k])]

\* C3: every substring that matches the URL pattern is replaced by the
\* placeholder before word tokenization: the tokens are those of the text
\* with each match replaced, so no part of a URL is left in them.
C3_EveryUrlMasked ==
    tpc # "input" => tokens = TokensOf(SubFrom(text, 1, Placeholder))

\* C4: tokenizing the tokens again gives the same tokens.
C4_TokenizeIdempotent ==
    tpc = "retokenized" => tokens2 = tokens

\* A text that holds URLs and, outside them, only whitespace
UrlOnly(t) ==
    /\ FindAll(t) # <<>>
    /\ \A c \in Range(SubFrom(t, 1, <<>>)) : c \in Whitespace

\* Whether word w occurs somewhere in text t
Occurs(w, t) == \E p \in 1..Len(t) : HasAt(t, p, w)

\* No detected URL lies inside a different detected URL
NoUrlInsideAnother(urls) ==
    \A a, b \in Range(urls) : a # b => ~Occurs(a, b)

MaxSents == 3
MaxMsgs == 2

\* The tag nltk.pos_tag gives a token, as far as the sentences below need it
TagOf(w) ==
    CASE w = <<"r","u","n">> -> "VB"
      [] w = <<"g","o">> -> "VBP"
      [] w = <<"a">> -> "DT"
      [] w = <<"d","o","g","s">> -> "NNS"
      [] OTHER -> "NN"

\* nltk.pos_tag(tokens): the (word, tag) pairs
PosTag(toks) == [k \in 1..Len(toks) |-> <<toks[k], TagOf(toks[k])>>]

\* if first_tag in ['VB', 'VBP'] or first_word == 'RT'
StartsWithVerb(pos_tags) ==
    LET first_word == pos_tags[1][1]
        first_tag  == pos_tags[1][2]
    IN  first_tag \in {"VB", "VBP"} \/ first_word = <<"R","T">>

starting_verb_first_sentence_only(sentence_list) ==
    IF sentence_list = <<>> THEN "False"
    ELSE LET pos_tags == PosTag(tokenize(Head(sentence_list)))
         IN  IF pos_tags = <<>> THEN "IndexError"
             ELSE IF StartsWithVerb(pos_tags) THEN "True"
             ELSE "False"

\* StartingVerbExtractor.starting_verb, lines 31-38, from the sentence list
\* on: "True", "False", or "IndexError" when pos_tags[0] is taken of an empty
\* list.
RECURSIVE starting_verb(_)
starting_verb(sentence_list) ==
    IF sentence_list = <<>> THEN "False"
    ELSE LET pos_tags == PosTag(tokenize(Head(sentence_list)))
         IN  IF pos_tags = <<>> THEN "IndexError"
             ELSE IF StartsWithVerb(pos_tags) THEN "True"
             ELSE starting_verb(Tail(sentence_list))

\* The sentences the messages are made of: " ", "run a", "RT a", "go", "dogs"
SentencePool ==
    { <<" ">>,
      <<"r","u","n"," ","a">>,
      <<"R","T"," ","a">>,
      <<"g","o">>,
      <<"d","o","g","s">> }

Messages == UNION {[1..n -> SentencePool] : n \in 0..MaxSents}

TokIdle ==
    text = <<>> /\ tokens = <<>> /\ tokens2 = <<>> /\ tpc = "idle"

\* starting_verb is applied to one message
InitVerb ==
    /\ MainIdle /\ TokIdle
    /\ msgs \in {<<m>> : m \in Messages}
    /\ out = <<>>
    /\ vpc = "apply"

\* transform is applied to a column of messages
InitTransform ==
    /\ MainIdle /\ TokIdle
    /\ msgs \in UNION {[1..n -> Messages] : n \in 0..MaxMsgs}
    /\ out = <<>>
    /\ vpc = "apply"

\* pd.Series(X).apply(self.starting_verb): the next row
ApplyRow ==
    /\ vpc = "apply"
    /\ Len(out) < Len(msgs)
    /\ LET r == starting_verb(msgs[Len(out) + 1])
       IN  IF r = "IndexError"
             THEN /\ vpc' = "raised"
                  /\ out' = out
             ELSE /\ vpc' = vpc
                  /\ out' = Append(out, r)
    /\ UNCHANGED <<msgs, mainVars, tokVars>>

\* return pd.DataFrame(X_tagged)
TransformReturn ==
    /\ vpc = "apply"
    /\ Len(out) = Len(msgs)
    /\ vpc' = "returned"
    /\ UNCHANGED <<msgs, out, mainVars, tokVars>>

NextVerb ==
    \/ ApplyRow
    \/ TransformReturn

SpecVerb == InitVerb /\ [][NextVerb]_vars

SpecTransform == InitTransform /\ [][NextVerb]_vars

VerbFirst(m, k) ==
    LET toks == tokenize(m[k])
    IN  /\ toks # <<>>
        /\ \/ TagOf(toks[1]) \in {"VB", "VBP"}
           \/ toks[1] = <<"R","T">>

NoTokens(m, k) == tokenize(m[k]) = <<>>

\* C8 (as stated, checked under SpecVerb): the result is true exactly when
\* the first sentence starts with a verb or "RT"; later sentences are not
\* looked at.
C8_OnlyFirstSentence ==
    Len(out) > 0 =>
        (out[1] = "True") = (Len(msgs[1]) > 0 /\ VerbFirst(msgs[1], 1))

\* C8 (amended, checked under SpecVerb): the sentences are inspected in
\* order; the result is true exactly when some sentence starts with a verb
\* or "RT" and no sentence before it has an empty token list; the call raises
\* IndexError exactly when a sentence with an empty token list is reached
\* before any sentence that starts with a verb.
C8_FirstVerbSentenceOfAny ==
    LET m == msgs[1]
        TrueAt(k)  == VerbFirst(m, k) /\ \A j \in 1..(k - 1) : ~NoTokens(m, j)
        RaiseAt(k) == NoTokens(m, k) /\ \A j \in 1..(k - 1) : ~VerbFirst(m, j)
    IN  /\ Len(out) > 0 =>
              /\ (out[1] = "True") = (\E k \in 1..Len(m) : TrueAt(k))
              /\ (out[1] = "False") = (\A k \in 1..Len(m) :
                                          ~VerbFirst(m, k) /\ ~NoTokens(m, k))
        /\ (Len(out) > 0 \/ vpc # "apply") =>
              (vpc = "raised") = (\E k \in 1..Len(m) : RaiseAt(k))
        /\ (vpc = "returned") => Len(out) = 1

C8_Witness ==
    /\ vpc = "returned"
    /\ Len(msgs[1]) >= 2
    /\ ~VerbFirst(msgs[1], 1)
    /\ VerbFirst(msgs[1], 2)
    /\ out = <<"True">>

====
